---- MODULE Spec2Model ----
EXTENDS Integers, Sequences, FiniteSets, TLC

(***************************************************************************)
(* A model of the three pipelines of sparks-tools:                         *)
(*   crosswalk/validate_csv.py          the validator                      *)
(*   crosswalk/build_crosswalk_dist.py  the distribution builder           *)
(*   registry/calc_haversine.py         the distance calculator            *)
(* Each pipeline has its own variables and its own specification; a        *)
(* specification leaves the other pipelines' variables idle.               *)
(***************************************************************************)

VARIABLES
    fs,         \* validator: reference files on disk, path -> sequence of rows
    cache,      \* validator: functools.cache of load_reference_values, <<file, column>> -> set
    vin,        \* validator: arguments of the last validate_csv call
    vout,       \* validator: what that call printed and its exit status
    runs,       \* validator: number of validate_csv calls made by the process
    datadir,    \* builder: the datasets of csv_dir and schema_dir, name -> schema and rows
    pc,         \* builder: where main is: "start", "running", "done" or "crashed"
    pending,    \* builder: the files process_files has still to process
    files,      \* builder: the list main gave to process_files
    dirs,       \* builder: the directories made under dist_dir
    written,    \* builder: the files written under dist_dir, path -> text
    index,      \* builder: the mapping write_field_mappings built for each index file
    dpc,        \* distances: "start" before the run of calc_haversine, "done" after
    dargs,      \* distances: the CSV rows and the command-line arguments of the run
    distances   \* distances: the map the run prints

vvars == <<fs, cache, vin, vout, runs>>
bvars == <<datadir, pc, pending, files, dirs, written, index>>
dvars == <<dpc, dargs, distances>>
vars == <<fs, cache, vin, vout, runs, datadir, pc, pending, files, dirs, written, index,
          dpc, dargs, distances>>

\* ------------------------------------------------------------------ bounds

\* Largest number of data rows of a CSV file given to the validator.
MaxRows == 3
\* Largest number of data rows of a dataset given to the builder.
MaxRecords == 3
\* Largest number of dataset names on the builder's command line.
MaxFiles == 3
\* Largest number of rows of the CSV file given to the distance calculator.
MaxLocations == 3

\* ------------------------------------------------------- python primitives

\* A str is a sequence of one-character strings; "" is <<>>.
Ord(c) ==
    CASE c = " " -> 32
      [] c = "A" -> 65
      [] c = "B" -> 66
      [] c = "C" -> 67
      [] c = "x" -> 120
      [] c = "y" -> 121

\* str.__lt__: comparison by code point, a proper prefix is smaller.
RECURSIVE StrLt(_, _)
StrLt(a, b) ==
    IF b = <<>> THEN FALSE
    ELSE IF a = <<>> THEN TRUE
    ELSE IF Head(a) # Head(b) THEN Ord(Head(a)) < Ord(Head(b))
    ELSE StrLt(Tail(a), Tail(b))

IsSpace(c) == c = " "

RECURSIVE LStrip(_)
LStrip(s) == IF s # <<>> /\ IsSpace(Head(s)) THEN LStrip(Tail(s)) ELSE s

RECURSIVE RStrip(_)
RStrip(s) ==
    IF s # <<>> /\ IsSpace(s[Len(s)]) THEN RStrip(SubSeq(s, 1, Len(s) - 1)) ELSE s

\* str.strip()
Strip(s) == RStrip(LStrip(s))

\* re.fullmatch for the patterns the schemas below use: a character class
\* repeated one or more times, [chars]+.
FullMatch(pattern, value) ==
    /\ value # <<>>
    /\ \A k \in 1..Len(value) : value[k] \in pattern.chars

\* dict.get(key, default) and `key in dict`; None is the string "None".
NoneVal == "None"
Has(d, key) == key \in DOMAIN d
Get(d, key, default) == IF key \in DOMAIN d THEN d[key] ELSE default

\* ------------------------------------------------------------ validate_csv

TYPE_REFERENCE == "reference"
VALID_TYPES == {"string", "integer", "enum", "decimal", TYPE_REFERENCE}

NoExit == -1

\* One printed error message: its kind and the values the message cites.
Err(kind, row_num, field_name, value, prev) ==
    [kind |-> kind, row |-> row_num, field |-> field_name, value |-> value, prev |-> prev]

\* load_reference_values under @functools.cache: a hit returns the cached set
\* without touching the file; a miss reads the file, and an exception (missing
\* file, a row without the column) caches nothing.
load_reference_values(memo, disk, file_path, column_name) ==
    IF <<file_path, column_name>> \in DOMAIN memo
    THEN [ok |-> TRUE, values |-> memo[<<file_path, column_name>>], cache |-> memo]
    ELSE IF file_path \notin DOMAIN disk
    THEN [ok |-> FALSE, values |-> {}, cache |-> memo]
    ELSE IF \E k \in 1..Len(disk[file_path]) : column_name \notin DOMAIN disk[file_path][k]
    THEN [ok |-> FALSE, values |-> {}, cache |-> memo]
    ELSE LET values == {disk[file_path][k][column_name] : k \in 1..Len(disk[file_path])}
         IN [ok |-> TRUE, values |-> values,
             cache |-> (<<file_path, column_name>> :> values) @@ memo]

\* The call load_reference_values(rules["reference_file"], rules["reference_column"]):
\* a missing key raises KeyError before the call.
LoadForRules(memo, disk, rules) ==
    IF Has(rules, "reference_file") /\ Has(rules, "reference_column")
    THEN load_reference_values(memo, disk, rules["reference_file"], rules["reference_column"])
    ELSE [ok |-> FALSE, values |-> {}, cache |-> memo]

\* Whether validate_field returns before any check.
FieldSkipped(rules) == Has(rules, "active") /\ ~rules["active"]

validate_field(value, rules, field_name, row_num, memo, disk) ==
    IF FieldSkipped(rules)
    THEN [errors |-> <<>>, cache |-> memo]
    ELSE
    LET isRef == value # <<>> /\ Has(rules, "type") /\ rules["type"] = TYPE_REFERENCE
        ld == IF isRef THEN LoadForRules(memo, disk, rules)
              ELSE [ok |-> TRUE, values |-> {}, cache |-> memo]
        eRequired ==
            IF Get(rules, "required", FALSE) /\ value = <<>>
            THEN <<Err("required", row_num, field_name, value, <<>>)>> ELSE <<>>
        eWhitespace ==
            IF value # <<>> /\ Len(value) # Len(Strip(value))
            THEN <<Err("whitespace", row_num, field_name, value, <<>>)>> ELSE <<>>
        ePattern ==
            IF Has(rules, "pattern") /\ value # <<>> /\ ~FullMatch(rules["pattern"], value)
            THEN <<Err("pattern", row_num, field_name, value, <<>>)>> ELSE <<>>
        eEnum ==
            IF value # <<>> /\ Has(rules, "enum") /\ value \notin rules["enum"]
            THEN <<Err("enum", row_num, field_name, value, <<>>)>> ELSE <<>>
        eRef ==
            IF isRef /\ value \notin ld.values
            THEN <<Err("reference", row_num, field_name, value, <<>>)>> ELSE <<>>
    IN [errors |-> eRequired \o eWhitespace \o ePattern \o eEnum \o eRef,
        cache |-> ld.cache]

\* check_duplicate_ids on seen_ids[id_field_name]; reading the defaultdict
\* creates the field's entry.
check_duplicate_ids(id_field_name, id_val, seen_ids, line_idx) ==
    LET seen == Get(seen_ids, id_field_name, {})
    IN IF id_val = <<>>
       THEN [errors |-> <<>>, seen_ids |-> (id_field_name :> seen) @@ seen_ids]
       ELSE IF id_val \in seen
       THEN [errors |-> <<Err("duplicate", line_idx, id_field_name, id_val, <<>>)>>,
             seen_ids |-> (id_field_name :> seen) @@ seen_ids]
       ELSE [errors |-> <<>>,
             seen_ids |-> (id_field_name :> (seen \cup {id_val})) @@ seen_ids]

\* The state of one validate_csv call: the local variables errors, seen_ids
\* and prev_id (None is the falsy <<>>), the process-wide cache, the rows the
\* row loop has entered, and the exit status once sys.exit is called.
StartRun(memo) ==
    [errors |-> <<>>, seen_ids |-> <<>>, prev_id |-> <<>>, cache |-> memo,
     rows_read |-> 0, exit |-> NoExit]

\* The schema loop, fields k.. of the schema.
RECURSIVE VerifySchema(_, _, _, _)
VerifySchema(schema, k, disk, st) ==
    IF k > Len(schema) THEN st
    ELSE
    LET field == schema[k].name
        rules == schema[k].rules
        field_type == Get(rules, "type", NoneVal)
        eType == IF field_type \notin VALID_TYPES
                 THEN <<Err("schema_type", 0, field, <<>>, <<>>)>> ELSE <<>>
        ld == IF field_type = "reference" THEN LoadForRules(st.cache, disk, rules)
              ELSE [ok |-> TRUE, values |-> {}, cache |-> st.cache]
        eLoad == IF ld.ok THEN <<>> ELSE <<Err("schema_ref", 0, field, <<>>, <<>>)>>
    IN VerifySchema(schema, k + 1, disk,
                    [st EXCEPT !.errors = @ \o eType \o eLoad, !.cache = ld.cache])

\* The field loop of one row, fields k.. of the schema.
RECURSIVE VerifyFields(_, _, _, _, _, _, _)

\* VerifyFields with the fail-fast test after the field loop instead of in it:
\* the row's fields are all verified before the exit.
RECURSIVE VerifyFieldsWholeRow(_, _, _, _, _, _, _)
VerifyFieldsWholeRow(row, i, schema, k, fail_fast, disk, st) ==
    IF st.exit # NoExit THEN st
    ELSE IF k > Len(schema)
    THEN [st EXCEPT !.exit = IF fail_fast /\ st.errors # <<>> THEN 1 ELSE NoExit]
    ELSE
    LET field == schema[k].name
        rules == schema[k].rules
        value == Get(row, field, <<>>)
        vf == validate_field(value, rules, field, i, st.cache, disk)
        dup == IF Get(rules, "unique", FALSE)
               THEN check_duplicate_ids(field, value, st.seen_ids, i)
               ELSE [errors |-> <<>>, seen_ids |-> st.seen_ids]
    IN VerifyFieldsWholeRow(row, i, schema, k + 1, fail_fast, disk,
                            [st EXCEPT !.errors = st.errors \o vf.errors \o dup.errors,
                                       !.cache = vf.cache, !.seen_ids = dup.seen_ids])

VerifyFields(row, i, schema, k, fail_fast, disk, st) ==
    IF k > Len(schema) \/ st.exit # NoExit THEN st
    ELSE
    LET field == schema[k].name
        rules == schema[k].rules
        value == Get(row, field, <<>>)
        vf == validate_field(value, rules, field, i, st.cache, disk)
        dup == IF Get(rules, "unique", FALSE)
               THEN check_duplicate_ids(field, value, st.seen_ids, i)
               ELSE [errors |-> <<>>, seen_ids |-> st.seen_ids]
        errors == st.errors \o vf.errors \o dup.errors
    IN VerifyFields(row, i, schema, k + 1, fail_fast, disk,
                    [st EXCEPT !.errors = errors, !.cache = vf.cache,
                               !.seen_ids = dup.seen_ids,
                               !.exit = IF fail_fast /\ errors # <<>> THEN 1 ELSE NoExit])

\* VerifySorting with <= in place of <: an equal identifier is reported too.
VerifySortingLe(row, i, fail_fast, st) ==
    IF st.prev_id # <<>> /\ ~StrLt(st.prev_id, row["sparks_id"])
    THEN [st EXCEPT !.errors = @ \o <<Err("sort", i, "sparks_id", row["sparks_id"], st.prev_id)>>,
                    !.exit = IF fail_fast THEN 1 ELSE NoExit]
    ELSE st

\* The sort check of row i.
VerifySorting(row, i, fail_fast, st) ==
    IF st.prev_id # <<>> /\ StrLt(row["sparks_id"], st.prev_id)
    THEN [st EXCEPT !.errors = @ \o <<Err("sort", i, "sparks_id", row["sparks_id"], st.prev_id)>>,
                    !.exit = IF fail_fast THEN 1 ELSE NoExit]
    ELSE st

\* The row loop, rows n.. of the file; row n is numbered n + 1.
RECURSIVE VerifyRows(_, _, _, _, _, _)
VerifyRows(rows, n, schema, fail_fast, disk, st) ==
    IF n > Len(rows) \/ st.exit # NoExit THEN st
    ELSE
    LET entered == [st EXCEPT !.rows_read = @ + 1]
        sorted == VerifySorting(rows[n], n + 1, fail_fast, entered)
        checked == VerifyFields(rows[n], n + 1, schema, 1, fail_fast, disk, sorted)
        next == IF checked.exit # NoExit THEN checked
                ELSE [checked EXCEPT !.prev_id = rows[n]["sparks_id"]]
    IN VerifyRows(rows, n + 1, schema, fail_fast, disk, next)

\* validate_csv without the escape for schema errors: the rows are verified
\* whatever the schema loop found.
validate_csvNoEscape(rows, schema, fail_fast, memo, disk) ==
    LET verified == VerifySchema(schema, 1, disk, StartRun(memo))
        st == VerifyRows(rows, 1, schema, fail_fast, disk, verified)
    IN IF st.exit # NoExit THEN st
       ELSE IF st.errors # <<>> THEN [st EXCEPT !.exit = 1]
       ELSE [st EXCEPT !.exit = 0]

validate_csv(rows, schema, fail_fast, memo, disk) ==
    LET verified == VerifySchema(schema, 1, disk, StartRun(memo))
    IN IF verified.errors # <<>> THEN [verified EXCEPT !.exit = 2]
       ELSE LET st == VerifyRows(rows, 1, schema, fail_fast, disk, verified)
            IN IF st.exit # NoExit THEN st
               ELSE IF st.errors # <<>> THEN [st EXCEPT !.exit = 1]
               ELSE [st EXCEPT !.exit = 0]

\* ------------------------------------------------- build_crosswalk_dist

\* A Python dict is a sequence of [key, val] items in insertion order.
DictKeys(d) == {d[k].key : k \in 1..Len(d)}
DictHas(d, key) == \E k \in 1..Len(d) : d[k].key = key
DictGet(d, key) == d[CHOOSE k \in 1..Len(d) : d[k].key = key].val
\* d[key] = val: a new key goes last, an old key keeps its place.
DictSet(d, key, val) ==
    IF DictHas(d, key)
    THEN [k \in 1..Len(d) |-> IF d[k].key = key THEN [key |-> key, val |-> val] ELSE d[k]]
    ELSE Append(d, [key |-> key, val |-> val])

\* A value of a record: a str, or None.
StrVal(v) == [null |-> FALSE, s |-> v]
None == [null |-> TRUE, s |-> ""]

\* load_fields: the active fields in schema order, name -> unique.
RECURSIVE load_fields(_)
load_fields(schema) ==
    IF schema = <<>> THEN <<>>
    ELSE LET v == Head(schema).rules
         IN (IF Get(v, "active", TRUE)
             THEN <<[key |-> Head(schema).name, val |-> Get(v, "unique", FALSE)]>>
             ELSE <<>>) \o load_fields(Tail(schema))

\* {k: d[k] or None for k in fields if k in d}
RECURSIVE ProjectRow(_, _)
ProjectRow(d, fields) ==
    IF fields = <<>> THEN <<>>
    ELSE LET k == Head(fields).key
         IN (IF k \in DOMAIN d
             THEN <<[key |-> k, val |-> IF d[k] # "" THEN StrVal(d[k]) ELSE None]>>
             ELSE <<>>) \o ProjectRow(d, Tail(fields))

ProjectRows(rows, fields) == [n \in 1..Len(rows) |-> ProjectRow(rows[n], fields)]

\* Text is a sequence of tokens; white space is a token of its own.
Tok(kind, str, n) == [k |-> kind, s |-> str, n |-> n]
Punct(str) == <<Tok("punct", str, 0)>>
Space == <<Tok("space", " ", 1)>>
Newline == <<Tok("newline", "", 0)>>
\* A line break followed by n spaces of indentation.
BreakIndent(n) == IF n = 0 THEN Newline ELSE Newline \o <<Tok("space", " ", n)>>

\* JSON values: what json.dump is given.
JScalar(v) == [t |-> "scalar", v |-> v, items |-> <<>>]
JArr(items) == [t |-> "arr", v |-> None, items |-> items]
JObj(items) == [t |-> "obj", v |-> None, items |-> items]

JRow(row) == JObj([k \in 1..Len(row) |-> [key |-> row[k].key, val |-> JScalar(row[k].val)]])
JRows(data) == JArr([n \in 1..Len(data) |-> JRow(data[n])])

\* json.dump(obj, f, indent=indent): indent 0 stands for indent=None, where the
\* separators are ", " and ": "; with an indent they are "," and ": " and
\* every item of a non-empty container is on a line of its own.
RECURSIVE JsonDump(_, _, _)
RECURSIVE JsonItems(_, _, _, _, _)
JsonItems(j, k, indent, level, pretty) ==
    IF k > Len(j.items) THEN <<>>
    ELSE (IF k = 1 THEN <<>>
          ELSE IF pretty THEN Punct(",") ELSE Punct(",") \o Space)
         \o (IF pretty THEN BreakIndent(indent * (level + 1)) ELSE <<>>)
         \o (IF j.t = "obj"
             THEN <<Tok("str", j.items[k].key, 0)>> \o Punct(":") \o Space
                  \o JsonDump(j.items[k].val, indent, level + 1)
             ELSE JsonDump(j.items[k], indent, level + 1))
         \o JsonItems(j, k + 1, indent, level, pretty)

JsonDump(j, indent, level) ==
    IF j.t = "scalar"
    THEN IF j.v.null THEN <<Tok("null", "", 0)>> ELSE <<Tok("str", j.v.s, 0)>>
    ELSE LET open == IF j.t = "obj" THEN "{" ELSE "["
             close == IF j.t = "obj" THEN "}" ELSE "]"
             pretty == indent > 0
         IN IF j.items = <<>> THEN Punct(open) \o Punct(close)
            ELSE Punct(open) \o JsonItems(j, 1, indent, level, pretty)
                 \o (IF pretty THEN BreakIndent(indent * level) ELSE <<>>)
                 \o Punct(close)

\* write_json(data, filepath, fields, minified): the text written.
write_json(j, minified) == JsonDump(j, IF minified THEN 0 ELSE 2, 0)

\* write_json_min(data, file, fields): calls write_json(data, file, fields).
write_json_min(j) == write_json(j, FALSE)

\* write_csv: the header, then every row with "" for a missing or None value.
RECURSIVE CsvLine(_)
CsvLine(cells) ==
    IF cells = <<>> THEN Newline
    ELSE <<Tok("cell", Head(cells), 0)>>
         \o (IF Len(cells) > 1 THEN Punct(",") ELSE <<>>) \o CsvLine(Tail(cells))

RECURSIVE CsvLines(_, _)
CsvLines(data, fields) ==
    IF data = <<>> THEN <<>>
    ELSE CsvLine([k \in 1..Len(fields) |->
                    IF DictHas(Head(data), fields[k].key)
                    THEN DictGet(Head(data), fields[k].key).s ELSE ""])
         \o CsvLines(Tail(data), fields)

write_csv(data, fields) ==
    CsvLine([k \in 1..Len(fields) |-> fields[k].key]) \o CsvLines(data, fields)

\* write_ndjson: one json.dumps(row) per line.
RECURSIVE write_ndjson(_)
write_ndjson(data) ==
    IF data = <<>> THEN <<>>
    ELSE JsonDump(JRow(Head(data)), 0, 0) \o Newline \o write_ndjson(Tail(data))

\* A path under dist_dir: dist_dir/<file>/<file><ext>, or
\* dist_dir/<file>/by_field/<file>.<field><ext>.
Path(file, field, ext) == [file |-> file, field |-> field, ext |-> ext]

\* The mapping of one field with the unique field's first row kept instead of
\* its last.
RECURSIVE FieldMappingFirstWins(_, _, _, _)
FieldMappingFirstWins(data, field, field_unique, mapping) ==
    IF data = <<>> THEN mapping
    ELSE LET row == Head(data)
             id_value == IF DictHas(row, field) THEN DictGet(row, field) ELSE None
             next == IF id_value.null THEN mapping
                     ELSE IF field_unique
                     THEN IF DictHas(mapping, id_value.s) THEN mapping
                          ELSE DictSet(mapping, id_value.s, row)
                     ELSE DictSet(mapping, id_value.s,
                                  (IF DictHas(mapping, id_value.s)
                                   THEN DictGet(mapping, id_value.s) ELSE <<>>) \o <<row>>)
         IN FieldMappingFirstWins(Tail(data), field, field_unique, next)

\* The row loop of write_field_mappings for one field: the mapping built from
\* the rows. A unique field's entry is the row assigned last; a non-unique
\* field's entry is the list appended to.
RECURSIVE FieldMapping(_, _, _, _)
FieldMapping(data, field, field_unique, mapping) ==
    IF data = <<>> THEN mapping
    ELSE LET row == Head(data)
             id_value == IF DictHas(row, field) THEN DictGet(row, field) ELSE None
             next == IF id_value.null THEN mapping
                     ELSE IF field_unique
                     THEN DictSet(mapping, id_value.s, row)
                     ELSE DictSet(mapping, id_value.s,
                                  (IF DictHas(mapping, id_value.s)
                                   THEN DictGet(mapping, id_value.s) ELSE <<>>) \o <<row>>)
         IN FieldMapping(Tail(data), field, field_unique, next)

\* The mapping as json.dump sees it: a unique field maps a value to a record
\* object, a non-unique field to a list of record objects.
JMapping(mapping, field_unique) ==
    JObj([k \in 1..Len(mapping) |->
            [key |-> mapping[k].key,
             val |-> IF field_unique THEN JRow(mapping[k].val)
                     ELSE JRows(mapping[k].val)]])

\* write_field_mappings, fields k..: the index files written and the mappings
\* they were written from; a field with an empty mapping writes nothing.
RECURSIVE write_field_mappings(_, _, _, _)
write_field_mappings(file, data, fields, k) ==
    IF k > Len(fields) THEN [dist |-> <<>>, index |-> <<>>]
    ELSE LET field == fields[k].key
             field_unique == fields[k].val
             mapping == FieldMapping(data, field, field_unique, <<>>)
             rest == write_field_mappings(file, data, fields, k + 1)
         IN IF mapping = <<>> THEN rest
            ELSE [dist |-> (Path(file, field, ".json") :>
                                write_json(JMapping(mapping, field_unique), FALSE))
                           @@ (Path(file, field, ".min.json") :>
                                write_json(JMapping(mapping, field_unique), TRUE))
                           @@ rest.dist,
                  index |-> (Path(file, field, ".json") :> mapping) @@ rest.index]

\* Whether load_fields and load_csv succeed for a dataset name.
Readable(dir, file) == file \in DOMAIN dir /\ dir[file].csv_ok

\* process_file for a readable dataset: FILE_WRITERS in order, then the
\* field mappings.
process_file(file, dataset) ==
    LET fields == load_fields(dataset.schema)
        data == ProjectRows(dataset.rows, fields)
        mappings == write_field_mappings(file, data, fields, 1)
    IN [dist |-> (Path(file, "", ".csv") :> write_csv(data, fields))
                 @@ (Path(file, "", ".json") :> write_json(JRows(data), FALSE))
                 @@ (Path(file, "", ".min.json") :> write_json_min(JRows(data)))
                 @@ (Path(file, "", ".ndjson") :> write_ndjson(data))
                 @@ mappings.dist,
        index |-> mappings.index]

\* All orders of a finite set, as os.listdir may return it.
RECURSIVE Orders(_)
Orders(S) ==
    IF S = {} THEN {<<>>}
    ELSE UNION {{<<x>> \o o : o \in Orders(S \ {x})} : x \in S}

BIdle ==
    /\ datadir = <<>> /\ pc = "idle" /\ pending = <<>> /\ files = <<>>
    /\ dirs = {} /\ written = <<>> /\ index = <<>>

BInit(datadirs) ==
    /\ datadir \in datadirs
    /\ pc = "start" /\ pending = <<>> /\ files = <<>>
    /\ dirs = {} /\ written = <<>> /\ index = <<>>

\* main: the files named on the command line, or every schema of schema_dir;
\* dist_dir is made.
Main(requests) ==
    /\ pc = "start"
    /\ \E args \in requests :
         \E list \in (IF args # <<>> THEN {args} ELSE Orders(DOMAIN datadir)) :
            /\ files' = list
            /\ pending' = list
            /\ pc' = IF list = <<>> THEN "done" ELSE "running"
    /\ dirs' = dirs \cup {<<>>}
    /\ UNCHANGED <<datadir, written, index>>
    /\ UNCHANGED <<vvars, dvars>>

\* ProcessFile with the failure of a file caught: the loop goes on to the next.
ProcessFileSkipping ==
    /\ pc = "running"
    /\ LET file == Head(pending)
           out == IF Readable(datadir, file) THEN process_file(file, datadir[file])
                  ELSE [dist |-> <<>>, index |-> <<>>]
       IN /\ dirs' = dirs \cup {<<file>>}
                     \cup (IF Readable(datadir, file) THEN {<<file, "by_field">>} ELSE {})
          /\ written' = out.dist @@ written
          /\ index' = out.index @@ index
          /\ pending' = Tail(pending)
          /\ pc' = IF Tail(pending) = <<>> THEN "done" ELSE "running"
    /\ UNCHANGED <<datadir, files>>
    /\ UNCHANGED <<vvars, dvars>>

\* One turn of the loop of process_files: process_file on the next file. An
\* exception of load_fields or load_csv leaves process_files and main.
ProcessFile ==
    /\ pc = "running"
    /\ LET file == Head(pending)
       IN /\ dirs' = dirs \cup {<<file>>}
                     \cup (IF Readable(datadir, file) THEN {<<file, "by_field">>} ELSE {})
          /\ IF Readable(datadir, file)
             THEN LET out == process_file(file, datadir[file])
                  IN /\ written' = out.dist @@ written
                     /\ index' = out.index @@ index
                     /\ pending' = Tail(pending)
                     /\ pc' = IF Tail(pending) = <<>> THEN "done" ELSE "running"
             ELSE /\ pc' = "crashed"
                  /\ UNCHANGED <<written, index, pending>>
    /\ UNCHANGED <<datadir, files>>
    /\ UNCHANGED <<vvars, dvars>>

\* ---------------------------------------------------------- calc_haversine

\* --filter-min and --filter-max when the flag is not given.
DefaultFilterMin == 0
DefaultFilterMax == 5000

\* Decimal(loc["longitude_dd"]): the exact decimal, held in hundredths of a
\* degree. The locations are on the equator (latitude_dd is 0), where the
\* haversine distance is the earth's radius times the smaller angle between
\* the longitudes: 69.093 miles or 111.195 km a degree. A distance is held in
\* thousandths of the unit.
Angle(a, b) ==
    LET d == IF a >= b THEN a - b ELSE b - a
    IN IF d > 18000 THEN 36000 - d ELSE d

haversine(src_coords, dest_coords, unit) ==
    (Angle(src_coords[2], dest_coords[2]) * (IF unit = "km" THEN 111195 ELSE 69093)) \div 100

Coords(loc) == <<loc.latitude_dd, loc.longitude_dd>>

\* int(dist)
Truncated(dist) == dist \div 1000

\* The filter with the truncated distance compared instead of the distance.
InRangeTruncated(dist, min_distance, max_distance) ==
    Truncated(dist) >= min_distance /\ Truncated(dist) <= max_distance

\* dist >= min_distance and dist <= max_distance
InRange(dist, min_distance, max_distance) ==
    dist >= min_distance * 1000 /\ dist <= max_distance * 1000

\* sorted(items, key=lambda s: s[1]): a stable sort by value.
RECURSIVE InsertByVal(_, _)
InsertByVal(sorted, item) ==
    IF sorted = <<>> THEN <<item>>
    ELSE IF Head(sorted).val <= item.val THEN <<Head(sorted)>> \o InsertByVal(Tail(sorted), item)
    ELSE <<item>> \o sorted

RECURSIVE SortedByVal(_)
SortedByVal(items) ==
    IF items = <<>> THEN <<>>
    ELSE InsertByVal(SortedByVal(SubSeq(items, 1, Len(items) - 1)), items[Len(items)])

\* The inner loop, dest j.. of the locations: src_distances.
RECURSIVE SrcDistances(_, _, _, _, _, _, _)
SrcDistances(src, locations, j, unit, min_distance, max_distance, src_distances) ==
    IF j > Len(locations) THEN src_distances
    ELSE LET dest == locations[j]
             dist == haversine(Coords(src), Coords(dest), unit)
         IN SrcDistances(src, locations, j + 1, unit, min_distance, max_distance,
                IF src = dest THEN src_distances
                ELSE IF InRange(dist, min_distance, max_distance)
                THEN DictSet(src_distances, dest.sparks_id, Truncated(dist))
                ELSE src_distances)

\* The outer loop, src i.. of the locations: all_distances.
RECURSIVE AllDistances(_, _, _, _, _, _)
AllDistances(locations, i, unit, min_distance, max_distance, all_distances) ==
    IF i > Len(locations) THEN all_distances
    ELSE AllDistances(locations, i + 1, unit, min_distance, max_distance,
            DictSet(all_distances, locations[i].sparks_id,
                    SortedByVal(SrcDistances(locations[i], locations, 1, unit,
                                             min_distance, max_distance, <<>>))))

calculate_distances(locations, unit, min_distance, max_distance) ==
    AllDistances(locations, 1, unit, min_distance, max_distance, <<>>)

\* A flag that is not on the command line.
NotGiven == -1

Locations == [sparks_id : {"a", "b", "c"}, latitude_dd : {0}, longitude_dd : {0, 20, 30, 9000}]
LocationLists == UNION {[1..n -> Locations] : n \in 0..MaxLocations}
Filters == {<<NotGiven, NotGiven>>, <<10, 20>>}

DIdle == dpc = "idle" /\ dargs = <<>> /\ distances = <<>>

DInit ==
    /\ dpc = "start"
    /\ dargs = <<>>
    /\ distances = <<>>

\* The script: process_csv on the rows of the CSV file, with the units and the
\* filter of the command line.
CalcHaversine ==
    /\ dpc = "start"
    /\ \E rows \in LocationLists, units \in {"mi", "km"}, filter \in Filters :
         LET filter_min == IF filter[1] = NotGiven THEN DefaultFilterMin ELSE filter[1]
             filter_max == IF filter[2] = NotGiven THEN DefaultFilterMax ELSE filter[2]
         IN /\ dargs' = [rows |-> rows, units |-> units, filter |-> filter,
                         filter_min |-> filter_min, filter_max |-> filter_max]
            /\ distances' = calculate_distances(rows, units, filter_min, filter_max)
    /\ dpc' = "done"
    /\ UNCHANGED <<vvars, bvars>>

\* ------------------------------------------------------- validator inputs

sA == <<"A">>
sB == <<"B">>
sC == <<"C">>
sx == <<"x">>
sy == <<"y", " ">>

IdRules ==
    [type |-> "string", required |-> TRUE, unique |-> TRUE,
     pattern |-> [chars |-> {"A", "B", "C"}]]
KindEnum == [type |-> "enum", enum |-> {sx}]
KindRef == [type |-> "reference", reference_file |-> "ref.csv", reference_column |-> "code"]
KindOff == [type |-> "string", active |-> FALSE, required |-> TRUE, unique |-> TRUE]
KindBad == [type |-> "date", active |-> FALSE]
KindUntyped == [required |-> TRUE]

SchemaOf(kindRules) ==
    <<[name |-> "sparks_id", rules |-> IdRules], [name |-> "kind", rules |-> kindRules]>>

Schemas ==
    {SchemaOf(r) : r \in {KindEnum, KindRef, KindOff, KindBad, KindUntyped}}
    \cup {SchemaOf(KindEnum) \o <<[name |-> "note", rules |-> [type |-> "string", required |-> TRUE]]>>}

CsvRows == [sparks_id : {<<>>, sA, sB, sC}, kind : {sx, sy}]

CsvFiles == UNION {[1..n -> CsvRows] : n \in 0..MaxRows}

RefRows(vals) == [k \in 1..Len(vals) |-> [code |-> vals[k]]]

\* ref.csv is missing, lacks the column, or holds the given codes.
DiskMissing == <<>>
DiskNoColumn == "ref.csv" :> <<[name |-> sx]>>
DiskOf(vals) == "ref.csv" :> RefRows(vals)
Disks == {DiskMissing, DiskNoColumn, DiskOf(<<sx>>)}

\* -------------------------------------------------- validator, as a process

NoCall == [csv |-> <<>>, schema |-> <<>>, fail_fast |-> FALSE]
NoResult == [errors |-> <<>>, exit |-> NoExit, rows_read |-> 0]

VIdle ==
    /\ fs = <<>> /\ cache = <<>> /\ vin = NoCall /\ vout = NoResult /\ runs = 0

VInit ==
    /\ fs \in Disks
    /\ cache = <<>>
    /\ vin = NoCall
    /\ vout = NoResult
    /\ runs = 0

\* One call validate_csv(csv, schema, fail_fast) in a process that has made
\* fewer than `limit` calls.
ValidateCsv(limit, csvs, schemas) ==
    /\ runs < limit
    /\ \E rows \in csvs, schema \in schemas, fail_fast \in BOOLEAN :
         LET st == validate_csv(rows, schema, fail_fast, cache, fs)
         IN /\ vin' = [csv |-> rows, schema |-> schema, fail_fast |-> fail_fast]
            /\ vout' = [errors |-> st.errors, exit |-> st.exit, rows_read |-> st.rows_read]
            /\ cache' = st.cache
    /\ runs' = runs + 1
    /\ UNCHANGED fs
    /\ UNCHANGED <<bvars, dvars>>

\* The command line: one process, one call.
Init == VInit /\ BIdle /\ DIdle
Next == ValidateCsv(1, CsvFiles, Schemas)
Spec == Init /\ [][Next]_vars

\* --------------------------------------------------------- builder inputs

BuildRows == [sparks_id : {"p1", "p2"}, team : {"", "x", "y"}]
BuildCsvs == UNION {[1..n -> BuildRows] : n \in 0..MaxRecords}

BuildSchemaOf(teamRules) ==
    <<[name |-> "sparks_id", rules |-> [type |-> "string", unique |-> TRUE]],
      [name |-> "team", rules |-> teamRules]>>

BuildSchemas ==
    {BuildSchemaOf(r) : r \in {[type |-> "string"],
                               [type |-> "string", unique |-> TRUE],
                               [type |-> "string", active |-> FALSE],
                               [type |-> "string", active |-> TRUE, unique |-> FALSE]}}
    \cup {BuildSchemaOf([type |-> "string"]) \o <<[name |-> "city", rules |-> [type |-> "string"]]>>}

Dataset(schema, rows) == [csv_ok |-> TRUE, schema |-> schema, rows |-> rows]

\* One dataset, parks, of any schema and rows.
OneDataset == {"parks" :> Dataset(s, r) : s \in BuildSchemas, r \in BuildCsvs}

\* Two datasets, each with a CSV file that is unreadable, empty or of two rows.
SampleRows == <<[sparks_id |-> "p1", team |-> "x"], [sparks_id |-> "p2", team |-> ""]>>
Samples ==
    {[csv_ok |-> FALSE, schema |-> BuildSchemaOf([type |-> "string"]), rows |-> <<>>],
     Dataset(BuildSchemaOf([type |-> "string"]), <<>>),
     Dataset(BuildSchemaOf([type |-> "string"]), SampleRows)}
TwoDatasets == [{"parks", "teams"} -> Samples]

\* Command lines of up to MaxFiles names; nodata has neither schema nor CSV.
Requests == UNION {[1..n -> {"parks", "teams", "nodata"}] : n \in 0..MaxFiles}

\* The builder run on one dataset.
InitBuild == BInit(OneDataset) /\ VIdle /\ DIdle
NextBuild == Main({<<>>, <<"parks">>}) \/ ProcessFile
SpecBuild == InitBuild /\ [][NextBuild]_vars

\* The builder run on several datasets.
InitBuildMany == BInit(TwoDatasets) /\ VIdle /\ DIdle
NextBuildMany == Main(Requests) \/ ProcessFile
SpecBuildMany == InitBuildMany /\ [][NextBuildMany]_vars

\* The distance calculator run once.
InitDist == DInit /\ VIdle /\ BIdle
NextDist == CalcHaversine
SpecDist == InitDist /\ [][NextDist]_vars

\* A long-lived process: validate_csv is called twice, and the reference file
\* is rewritten between the two calls.
WriteReferenceFile ==
    /\ runs = 1
    /\ \E disk \in {DiskOf(<<sx>>), DiskOf(<<sy, sy>>)} : disk # fs /\ fs' = disk
    /\ UNCHANGED <<cache, vin, vout, runs>>
    /\ UNCHANGED <<bvars, dvars>>

SingleRowFiles == {<<>>} \cup {<<r>> : r \in CsvRows}
RefSchemas == {SchemaOf(KindRef), SchemaOf(KindEnum)}

NextRuns == ValidateCsv(2, SingleRowFiles, RefSchemas) \/ WriteReferenceFile
SpecRuns == Init /\ [][NextRuns]_vars

\* ------------------------------------------------------ validator: claims

Called == runs > 0
RowsVerified == Called /\ vout.exit \in {0, 1}

ErrorIdx(kind, row_num) ==
    {k \in 1..Len(vout.errors) : vout.errors[k].kind = kind /\ vout.errors[k].row = row_num}

\* a is lexicographically smaller than b: they differ first at a position
\* where a ends or holds the smaller character.
LexSmaller(a, b) ==
    \E k \in 1..Len(b) :
        /\ k <= Len(a) + 1
        /\ \A m \in 1..(k - 1) : a[m] = b[m]
        /\ (k = Len(a) + 1 \/ Ord(a[k]) < Ord(b[k]))

IdOf(n) == vin.csv[n]["sparks_id"]

\* C6: in default mode the sort errors reported are, one for one, the rows
\* whose sparks_id is lexicographically smaller than the preceding row's,
\* each citing the row's value and the preceding value; the first data row
\* (row 2) yields none.
C6_SortErrors ==
    (RowsVerified /\ ~vin.fail_fast) =>
        /\ \A k \in 1..Len(vout.errors) :
              vout.errors[k].kind = "sort" => vout.errors[k].row \in 3..(Len(vin.csv) + 1)
        /\ \A n \in 1..Len(vin.csv) :
              IF n > 1 /\ LexSmaller(IdOf(n), IdOf(n - 1))
              THEN /\ Cardinality(ErrorIdx("sort", n + 1)) = 1
                   /\ \A k \in ErrorIdx("sort", n + 1) :
                         vout.errors[k] = Err("sort", n + 1, "sparks_id", IdOf(n), IdOf(n - 1))
              ELSE ErrorIdx("sort", n + 1) = {}

\* Identifiers [A, C, B] in default mode: one sort error, at row 4, citing B and C.
C6_Witness ==
    /\ RowsVerified /\ ~vin.fail_fast
    /\ Len(vin.csv) = 3
    /\ <<IdOf(1), IdOf(2), IdOf(3)>> = <<sA, sC, sB>>
    /\ \E k \in 1..Len(vout.errors) : vout.errors[k] = Err("sort", 4, "sparks_id", sB, sC)

\* Whether a field's reference column cannot be read from the disk.
Unloadable(disk, rules) ==
    \/ ~Has(rules, "reference_file") \/ ~Has(rules, "reference_column")
    \/ rules["reference_file"] \notin DOMAIN disk
    \/ \E k \in 1..Len(disk[rules["reference_file"]]) :
          rules["reference_column"] \notin DOMAIN disk[rules["reference_file"]][k]

SchemaInvalid(schema, disk) ==
    \E k \in 1..Len(schema) :
        \/ Get(schema[k].rules, "type", NoneVal) \notin VALID_TYPES
        \/ Get(schema[k].rules, "type", NoneVal) = "reference" /\ Unloadable(disk, schema[k].rules)

SchemaKinds == {"schema_type", "schema_ref"}

\* C2: an invalid schema (a field of no valid type, a reference column that
\* cannot be loaded) ends the run with status 2 before any row is verified;
\* otherwise the status is 1 exactly when a data error is reported and 0
\* exactly when none is.
C2_ExitStatus ==
    Called =>
        IF SchemaInvalid(vin.schema, fs)
        THEN /\ vout.exit = 2
             /\ vout.rows_read = 0
             /\ \A k \in 1..Len(vout.errors) : vout.errors[k].kind \in SchemaKinds
        ELSE /\ vout.exit \in {0, 1}
             /\ vout.exit = 1 <=> vout.errors # <<>>
             /\ \A k \in 1..Len(vout.errors) : vout.errors[k].kind \notin SchemaKinds

\* A file with rows is given with a schema whose reference file is missing:
\* status 2, no row read.
C2_Witness ==
    /\ Called /\ vin.csv # <<>>
    /\ vin.schema = SchemaOf(KindRef) /\ fs = DiskMissing
    /\ vout.exit = 2 /\ vout.rows_read = 0

\* What the default mode reports for the arguments of the last call.
DefaultErrors == validate_csv(vin.csv, vin.schema, FALSE, <<>>, fs).errors

\* The check an error comes from: a row's sort check, or one field of a row.
CheckOf(e) == <<e.row, IF e.kind = "sort" THEN "(sort)" ELSE e.field>>

OfRow(errors, row_num) == SelectSeq(errors, LAMBDA e : e.row = row_num)
OfCheck(errors, check) == SelectSeq(errors, LAMBDA e : CheckOf(e) = check)

\* C1, as claimed: a fail-fast run that stops on a data error reports all the
\* errors of the first row that has any.
C1_WholeRowReported ==
    (RowsVerified /\ vin.fail_fast /\ vout.exit = 1) =>
        vout.errors = OfRow(DefaultErrors, DefaultErrors[1].row)

\* C1, amended: a fail-fast run stops at the first check that yields an error
\* (a row's sort check, or the checks of one schema field of a row) and
\* reports the errors of that check alone; no later row is read.
C1_FirstCheckReported ==
    (RowsVerified /\ vin.fail_fast) =>
        IF DefaultErrors = <<>>
        THEN vout.errors = <<>> /\ vout.exit = 0
        ELSE /\ vout.exit = 1
             /\ vout.errors = OfCheck(DefaultErrors, CheckOf(DefaultErrors[1]))
             /\ vout.rows_read = DefaultErrors[1].row - 1

\* A fail-fast run stopped in a row that has errors of further checks.
C1_Witness ==
    /\ RowsVerified /\ vin.fail_fast /\ vout.exit = 1
    /\ Len(OfRow(DefaultErrors, DefaultErrors[1].row)) > Len(vout.errors)
    /\ vout.rows_read < Len(vin.csv)

\* C3: no error of the row loop, per-field or duplicate-value, names a schema
\* field marked active: false. (The schema loop verifies the type and the
\* reference of every field, active or not.)
C3_InactiveFieldUnchecked ==
    Called =>
        \A k \in 1..Len(vout.errors), j \in 1..Len(vin.schema) :
            (vout.errors[k].kind \notin SchemaKinds /\ vin.schema[j].name = vout.errors[k].field)
            => ~FieldSkipped(vin.schema[j].rules)

\* The values of a reference column as they are on the disk now.
FileValues(disk, rules) ==
    IF Unloadable(disk, rules) THEN {}
    ELSE {disk[rules["reference_file"]][k][rules["reference_column"]] :
            k \in 1..Len(disk[rules["reference_file"]])}

\* C4: the second call of a process checks a reference field against the
\* values its reference file holds during that call (stated for default mode,
\* where every row and field is verified; the file is not written after the
\* second call).
C4_CacheScopedToRun ==
    (RowsVerified /\ ~vin.fail_fast /\ runs = 2) =>
        \A n \in 1..Len(vin.csv), j \in 1..Len(vin.schema) :
            LET rules == vin.schema[j].rules
                value == Get(vin.csv[n], vin.schema[j].name, <<>>)
            IN (~FieldSkipped(rules) /\ Get(rules, "type", NoneVal) = "reference" /\ value # <<>>) =>
                  ((\E k \in ErrorIdx("reference", n + 1) :
                        vout.errors[k] = Err("reference", n + 1, vin.schema[j].name, value, <<>>))
                   <=> value \notin FileValues(fs, rules))

\* -------------------------------------------------------- builder: claims

MainExts == {".csv", ".json", ".min.json", ".ndjson"}
Built(file) == \A ext \in MainExts : Path(file, "", ext) \in DOMAIN written
NothingWritten(file) == \A p \in DOMAIN written : p.file # file
Ended == pc \in {"done", "crashed"}

\* The records of a dataset as process_file loads them.
Records(file) == ProjectRows(datadir[file].rows, load_fields(datadir[file].schema))
RawValue(file, n, field) ==
    IF field \in DOMAIN datadir[file].rows[n] THEN datadir[file].rows[n][field] ELSE ""
RowsWith(file, field, v) ==
    {n \in 1..Len(datadir[file].rows) : RawValue(file, n, field) = v}
\* The k-th smallest element of a set of numbers.
Nth(S, k) == CHOOSE n \in S : Cardinality({m \in S : m <= n}) = k
Last(S) == CHOOSE n \in S : \A m \in S : m <= n

ActiveFields(file) ==
    {k \in 1..Len(datadir[file].schema) : Get(datadir[file].schema[k].rules, "active", TRUE)}

\* C5: for every active field F and non-empty value v, the index entry of v is
\* the list of the records whose F is v, in row order, when F is not unique,
\* and the last such record when F is unique; a value no record holds has no
\* entry, and a field no record holds a value of has no index file.
C5_FieldIndex ==
    (pc = "done" /\ "parks" \in DOMAIN datadir) =>
        \A k \in ActiveFields("parks") :
            LET F == datadir["parks"].schema[k].name
                unique == Get(datadir["parks"].schema[k].rules, "unique", FALSE)
                p == Path("parks", F, ".json")
                pmin == Path("parks", F, ".min.json")
                rows == Records("parks")
                held == {v \in {"x", "y", "p1", "p2"} : RowsWith("parks", F, v) # {}}
            IN /\ (p \in DOMAIN index) <=> (held # {})
               /\ (p \in DOMAIN written) <=> (held # {})
               /\ (pmin \in DOMAIN written) <=> (held # {})
               /\ p \in DOMAIN index =>
                    /\ DictKeys(index[p]) = held
                    /\ Len(index[p]) = Cardinality(held)
                    /\ \A v \in held :
                         LET S == RowsWith("parks", F, v)
                         IN DictGet(index[p], v) =
                              IF unique THEN rows[Last(S)]
                              ELSE [j \in 1..Cardinality(S) |-> rows[Nth(S, j)]]

\* A non-unique team with values [x, y, x] and a unique sparks_id with values
\* [p1, p2, p1]: x maps to the 1st and 3rd records, p1 to the 3rd.
C5_Witness ==
    /\ pc = "done" /\ "parks" \in DOMAIN datadir
    /\ datadir["parks"].schema = BuildSchemaOf([type |-> "string"])
    /\ datadir["parks"].rows = <<[sparks_id |-> "p1", team |-> "x"],
                                 [sparks_id |-> "p2", team |-> "y"],
                                 [sparks_id |-> "p1", team |-> "x"]>>
    /\ DictGet(index[Path("parks", "team", ".json")], "x")
         = <<Records("parks")[1], Records("parks")[3]>>
    /\ DictGet(index[Path("parks", "sparks_id", ".json")], "p1") = Records("parks")[3]

\* A text without line breaks and without indentation.
IsCompact(text) ==
    \A k \in 1..Len(text) :
        /\ text[k].k # "newline"
        /\ text[k].k = "space" => text[k].n = 1
\* A text with its white space between tokens removed: what it decodes to.
Decoded(text) == SelectSeq(text, LAMBDA t : t.k \notin {"newline", "space"})

\* C9: D.min.json holds the content of D.json in the compact format, without
\* indentation and line breaks, as the index files *.min.json do.
C9_MinJsonIsMinified ==
    (pc = "done" /\ "parks" \in DOMAIN datadir) =>
        /\ Decoded(written[Path("parks", "", ".min.json")]) = Decoded(written[Path("parks", "", ".json")])
        /\ IsCompact(written[Path("parks", "", ".min.json")])
        /\ \A p \in DOMAIN written : p.field # "" /\ p.ext = ".min.json" => IsCompact(written[p])

\* The first file of the list that cannot be read, or the length of the list
\* plus one.
FirstBad ==
    IF \A i \in 1..Len(files) : Readable(datadir, files[i]) THEN Len(files) + 1
    ELSE CHOOSE i \in 1..Len(files) :
            /\ ~Readable(datadir, files[i])
            /\ \A j \in 1..(i - 1) : Readable(datadir, files[j])

\* C10, as claimed: when the run has ended, every requested dataset that can
\* be read has been built, whatever happened to the others.
C10_DatasetsIndependent ==
    Ended => \A i \in 1..Len(files) : Readable(datadir, files[i]) => Built(files[i])

\* C10, amended: the datasets are built in the order requested and the first
\* failure ends the run: those before it are built, the failing one and those
\* listed after it (and not before it) have no file written.
C10_FirstFailureEndsRun ==
    Ended =>
        /\ pc = "crashed" <=> FirstBad <= Len(files)
        /\ \A i \in 1..Len(files) :
             IF i < FirstBad THEN Built(files[i])
             ELSE (\A j \in 1..(FirstBad - 1) : files[j] # files[i]) => NothingWritten(files[i])

\* A run that crashed on one dataset and left a readable one, listed after
\* it, unbuilt.
C10_Witness ==
    /\ pc = "crashed"
    /\ \E i \in 1..Len(files) :
         i > FirstBad /\ Readable(datadir, files[i]) /\ NothingWritten(files[i])

\* ------------------------------------------------------ distances: claims

Loc(i) == dargs.rows[i]
Raw(i, j) == haversine(Coords(Loc(i)), Coords(Loc(j)), dargs.units)
\* The record that supplies the entry of its id: the last row with the id.
LastOfId(i) == \A m \in 1..Len(dargs.rows) : Loc(m).sparks_id = Loc(i).sparks_id => m <= i
MapOf(i) == DictGet(distances, Loc(i).sparks_id)

\* No two rows have the same sparks_id (and so no two rows are equal).
DistinctIds ==
    \A i, j \in 1..Len(dargs.rows) : Loc(i).sparks_id = Loc(j).sparks_id => i = j

\* C7, as claimed, on rows of distinct ids: a pair is retained exactly when
\* its truncated distance d satisfies min <= d <= max, and no value outside
\* [min, max] is stored.
C7_TruncatedInRange ==
    (dpc = "done" /\ DistinctIds) =>
        \A i, j \in 1..Len(dargs.rows) : i # j =>
            (DictHas(MapOf(i), Loc(j).sparks_id)
             <=> (/\ Truncated(Raw(i, j)) >= dargs.filter_min
                  /\ Truncated(Raw(i, j)) <= dargs.filter_max))

\* The rows that src i retains: those that differ from it and whose distance
\* itself, not truncated, is within the bounds.
RetainedBy(i) ==
    {j \in 1..Len(dargs.rows) :
        /\ Loc(j) # Loc(i)
        /\ Raw(i, j) >= dargs.filter_min * 1000
        /\ Raw(i, j) <= dargs.filter_max * 1000}

\* C7, amended: a pair of differing rows is retained exactly when its distance
\* before truncation satisfies min <= dist <= max; the value stored is the
\* distance truncated (of the last retained row of the id), which is never
\* outside [min, max].
C7_RawInRange ==
    dpc = "done" =>
        /\ DictKeys(distances) = {Loc(i).sparks_id : i \in 1..Len(dargs.rows)}
        /\ \A i \in 1..Len(dargs.rows) : LastOfId(i) =>
             /\ DictKeys(MapOf(i)) = {Loc(j).sparks_id : j \in RetainedBy(i)}
             /\ Len(MapOf(i)) = Cardinality(DictKeys(MapOf(i)))
             /\ \A j \in RetainedBy(i) :
                  (\A m \in RetainedBy(i) : Loc(m).sparks_id = Loc(j).sparks_id => m <= j)
                  => DictGet(MapOf(i), Loc(j).sparks_id) = Truncated(Raw(i, j))
             /\ \A k \in 1..Len(MapOf(i)) :
                  MapOf(i)[k].val >= dargs.filter_min /\ MapOf(i)[k].val <= dargs.filter_max

\* Bounds 10..20 miles: a is 13.8 miles from b and 20.7 from c; b is kept
\* with 13, c is dropped although its truncated distance is 20.
C7_Witness ==
    /\ dpc = "done" /\ dargs.filter = <<10, 20>> /\ dargs.units = "mi"
    /\ Len(dargs.rows) = 3
    /\ <<Loc(1).sparks_id, Loc(2).sparks_id, Loc(3).sparks_id>> = <<"a", "b", "c">>
    /\ Truncated(Raw(1, 3)) = 20 /\ Raw(1, 3) > 20000
    /\ MapOf(1) = <<[key |-> "b", val |-> 13]>>

\* C8, on rows of distinct ids: without --filter-min and --filter-max every
\* record is a key of the result and its map has an entry for each of the
\* other N-1 records.
C8_AllPairsWithoutFilter ==
    (dpc = "done" /\ dargs.filter = <<NotGiven, NotGiven>> /\ DistinctIds) =>
        \A i \in 1..Len(dargs.rows) :
            /\ DictHas(distances, Loc(i).sparks_id)
            /\ DictKeys(MapOf(i)) = {Loc(j).sparks_id : j \in 1..Len(dargs.rows) \ {i}}

====
